---- MODULE Spec2Model ----
(***************************************************************************)
(* Failing-policies webhook of fleet: TriggerFailingPoliciesWebhook and    *)
(* the FailingPolicySet it drains.  Every blocking call of the cycle       *)
(* (ds.Policy, ListHosts, PostJSONWithTimeout, RemoveHosts) is one atomic  *)
(* step, so that evaluation workers adding hosts, external remediation     *)
(* and other invocations of the cycle interleave between the calls.        *)
(***************************************************************************)
EXTENDS Integers, Sequences, FiniteSets, TLC

\* ------------------------------------------------------------------ bounds
MaxRuns == 2         \* invocations of the cycle started in one behaviour
MaxWrites == 2       \* AddHost and remediation events in one behaviour
MaxHostID == 42      \* host identifiers given to makeFailingHost on its own

\* the end-to-end scenario: policy 7 with hosts 101 and 102, and a second policy
HostIDs == {101, 102}
KnownPolicies == {7, 8}
\* the server replicas that run the cycle; each runs one invocation at a time
Runs == {1, 2}
\* the policy and the host whose reports are followed
Watched == [policy |-> 7, host |-> 101]

VARIABLES
    Enable,         \* appConfig.WebhookSettings.FailingPoliciesWebhook.Enable
    PolicyIDs,      \* appConfig.WebhookSettings.FailingPoliciesWebhook.PolicyIDs
    ServerURL,      \* appConfig.ServerSettings.ServerURL, as a sequence of characters
    failingSets,    \* FailingPolicySet: policy identifier -> set of host identifiers
    pc,             \* per invocation: the call it is about to make
    idx,            \* per invocation: index in PolicyIDs of the current iteration
    hosts,          \* per invocation: local variable hosts (the ListHosts result)
    ret,            \* per invocation: NotReturned, NilError or the wrapped error
    last,           \* per invocation: the latest call it made and how it ended
    delivered,      \* per invocation: the host lists of the payloads posted with
                    \* success in the current iteration (none or one)
    attempts,       \* per invocation: PostJSONWithTimeout calls made, per policy
    fresh,          \* per invocation: the watched host was added to the policy of its
                    \* latest snapshot after the snapshot was taken, and nobody else
                    \* removed it before the invocation left that iteration
    reported,       \* the watched host is a member of the watched policy's set and
                    \* was in a successfully delivered payload since it was added
    unpruned,       \* ... and the RemoveHosts call that followed that delivery failed
    num,            \* per replica: the number of its invocation, 0 before its first
    started,        \* invocations started so far
    writes,         \* AddHost and remediation events so far
    failingHost,    \* the FailingHost that makeFailingHost returned, when it is
                    \* applied on its own
    payload         \* per invocation: the payload handed to PostJSONWithTimeout
                    \* in the current iteration, or in the one a failed delivery ended

vars == <<Enable, PolicyIDs, failingSets, pc, idx, hosts, ret, last, delivered,
          attempts, fresh, reported, unpruned, num, started, writes,
          ServerURL, failingHost, payload>>

config == <<Enable, PolicyIDs, ServerURL>>

\* --------------------------------------------------------------- helpers
Range(s) == {s[i] : i \in 1..Len(s)}

\* all sequences over S of length at most n
RECURSIVE SeqsUpTo(_, _)
SeqsUpTo(S, n) ==
    IF n = 0 THEN {<<>>}
    ELSE LET shorter == SeqsUpTo(S, n - 1)
         IN  shorter \cup {Append(s, x) : s \in {t \in shorter : Len(t) = n - 1}, x \in S}

\* the orderings of a finite set: sequences without repetition that cover it
Orderings(S) ==
    {s \in SeqsUpTo(S, Cardinality(S)) : Len(s) = Cardinality(S) /\ Range(s) = S}

\* the lists a configuration may hold: any order, repetitions allowed, as long
\* as there are policies
ConfiguredLists == SeqsUpTo(KnownPolicies, Cardinality(KnownPolicies))

\* ------------------------------------------------- strings, strconv, path
\* a string is the sequence of its characters
Slash == "/"
Digits == <<"0", "1", "2", "3", "4", "5", "6", "7", "8", "9">>

\* strconv.Itoa
RECURSIVE Itoa(_)
Itoa(n) ==
    IF n < 0 THEN <<"-">> \o Itoa(-n)
    ELSE IF n < 10 THEN <<Digits[n + 1]>>
    ELSE Itoa(n \div 10) \o <<Digits[(n % 10) + 1]>>

\* the element of a singleton; in Once({F(v) : v \in {e}}) the argument e of F
\* is evaluated once, however often F uses it
Once(S) == CHOOSE v \in S : TRUE

\* the elements joined with a slash between them
RECURSIVE JoinSlash(_)
JoinSlash(elems) ==
    IF elems = <<>> THEN <<>>
    ELSE IF Len(elems) = 1 THEN elems[1]
    ELSE elems[1] \o <<Slash>> \o JoinSlash(Tail(elems))

\* path.Clean, at the end of an element e of the path, out being the elements
\* kept so far: an empty element (a repeated or trailing slash) and "." go,
\* ".." takes the element before it with it, or goes at the root
CleanElem(out, e, rooted) ==
    IF e = <<>> \/ e = <<".">> THEN out
    ELSE IF e = <<".", ".">>
         THEN IF out # <<>> /\ out[Len(out)] # <<".", ".">>
              THEN SubSeq(out, 1, Len(out) - 1)
              ELSE IF rooted THEN out ELSE Append(out, e)
         ELSE Append(out, e)

\* the elements of a path between its slashes, empty ones included
Elements(p) ==
    LET cuts == {0} \cup {i \in 1..Len(p) : p[i] = Slash} \cup {Len(p) + 1}
        nth(k) == CHOOSE i \in cuts : Cardinality({j \in cuts : j < i}) = k
    IN  [k \in 1..(Cardinality(cuts) - 1) |-> SubSeq(p, nth(k - 1) + 1, nth(k) - 1)]

\* path.Clean going through the elements from the i-th on: the elements of
\* the cleaned path
RECURSIVE CleanFrom(_, _, _, _)
CleanFrom(elems, i, out, rooted) ==
    IF i > Len(elems) THEN out
    ELSE Once({ CleanFrom(elems, i + 1, o, rooted) :
                   o \in {CleanElem(out, elems[i], rooted)} })

\* path.Clean: the cleaned path from its elements
CleanPath(elems, rooted) ==
    LET out == JoinSlash(elems)
    IN  IF rooted THEN <<Slash>> \o out
        ELSE IF out = <<>> THEN <<".">> ELSE out

\* path.Clean of a string that is not empty
CleanNonEmpty(p) ==
    Once({ CleanPath(kept, p[1] = Slash) :
              kept \in { CleanFrom(elems, 1, <<>>, p[1] = Slash) :
                            elems \in {Elements(p)} } })

\* path.Clean: the shortest path name equivalent to p
pathClean(p) ==
    IF p = <<>> THEN <<".">>
    ELSE Once({ CleanNonEmpty(v) : v \in {p} })

\* path.Join: the non-empty elements joined with slashes, then cleaned
pathJoin(elems) ==
    LET nonEmpty == SelectSeq(elems, LAMBDA e : e # <<>>)
    IN  IF nonEmpty = <<>> THEN <<>> ELSE pathClean(JoinSlash(nonEmpty))

\* "https://fleet.example.com"
ExampleServerURL ==
    <<"h", "t", "t", "p", "s", ":", "/", "/", "f", "l", "e", "e", "t", ".",
      "e", "x", "a", "m", "p", "l", "e", ".", "c", "o", "m">>

\* the base addresses a deployment may be configured with: the example, the
\* example with a trailing slash, "http://localhost:8080", a bare host name
\* "fleet.example.com", and none
ServerURLs ==
    { ExampleServerURL,
      ExampleServerURL \o <<"/">>,
      <<"h", "t", "t", "p", ":", "/", "/", "l", "o", "c", "a", "l", "h", "o", "s", "t",
        ":", "8", "0", "8", "0">>,
      <<"f", "l", "e", "e", "t", ".", "e", "x", "a", "m", "p", "l", "e", ".", "c", "o", "m">>,
      <<>> }

\* service.PolicySetHost: the identifier and the display name of a host
Hostname(id) == <<"h", "o", "s", "t", "-">> \o Itoa(id)
PolicySetHost(id) == [ID |-> id, Hostname |-> Hostname(id)]

\* line 85: the deep link of every host under every base address, worked
\* out once
DeepLinks ==
    [fleetServerURL \in ServerURLs |->
        [id \in HostIDs \cup 0..MaxHostID |->
            pathJoin(<<fleetServerURL, <<"h", "o", "s", "t", "s">>, Itoa(id)>>)]]

\* lines 81-87: makeFailingHost
makeFailingHost(host, fleetServerURL) ==
    [ID |-> host.ID,
     Hostname |-> host.Hostname,
     URL |-> DeepLinks[fleetServerURL][host.ID]]

NoFailingHost == [ID |-> 0, Hostname |-> <<>>, URL |-> <<>>]

\* ------------------------------------------------- FailingPolicySet (store)
\* ListHosts: a point-in-time snapshot of the policy's members, in some order
ListHosts(policyID) == Orderings(failingSets[policyID])

RemoveHostsEverywhere(policyID, hs) ==
    [p \in KnownPolicies |-> failingSets[p] \ Range(hs)]
RemoveHostsAll(policyID, hs) ==
    [failingSets EXCEPT ![policyID] = {}]

\* RemoveHosts: set difference against the supplied list
RemoveHosts(policyID, hs) ==
    [failingSets EXCEPT ![policyID] = @ \ Range(hs)]

\* AddHost: idempotent insertion
AddHostTo(policyID, h) ==
    [failingSets EXCEPT ![policyID] = @ \cup {h}]

\* ------------------------------------------------------------- the cycle
NotReturned == [msg |-> "running"]
NilError == [msg |-> "nil"]
NotDelivered == {}
NoCall == [op |-> "none", i |-> 0, err |-> "nil"]

\* the identifier of the iteration invocation r is in
Current(r) == PolicyIDs[idx[r]]

\* line 34: the policy record that ds.Policy resolves for an identifier
Policy(policyID) == [ID |-> policyID]

\* line 25: the time of the tick that started invocation r
Now(r) == num[r]

\* lines 48-51: one FailingHost per host of the snapshot, in its order
FailingHostsNone(hs, fleetServerURL) == <<>>
FailingHosts(hs, fleetServerURL) ==
    [i \in 1..Len(hs) |-> makeFailingHost(PolicySetHost(hs[i]), fleetServerURL)]

\* lines 52-56: the payload of the current iteration
Payload(r) ==
    [Timestamp |-> Now(r),
     Policy |-> Policy(Current(r)),
     FailingHosts |-> FailingHosts(hosts[r], ServerURL)]

NoPayload == [Timestamp |-> 0, Policy |-> Policy(0), FailingHosts |-> <<>>]

\* line 27: the webhook is switched off
WebhookDisabledIgnored == FALSE
WebhookDisabled == ~Enable

\* lines 35-43: what the switch on ds.Policy's error does
PolicySwitchAlwaysSkips(err) ==
    CASE err = "nil" -> "continue"
      [] err = "ErrNoRows" -> "continue"
      [] OTHER -> "return"
PolicySwitchNoRowsFatal(err) ==
    CASE err = "nil" -> "ListHosts"
      [] OTHER -> "return"
PolicySwitch(err) ==
    CASE err = "nil" -> "ListHosts"
      [] err = "ErrNoRows" -> "continue"
      [] OTHER -> "return"

\* lines 45-47: a ListHosts error returns
AfterListHostsErrorIgnored(err) == "Post"
AfterListHosts(err) == IF err # "nil" THEN "return" ELSE "Post"

\* lines 59-61: a delivery error returns, a success goes on to the prune
AfterPostErrorIgnored(err) == "RemoveHosts"
AfterPost(err) == IF err # "nil" THEN "return" ELSE "RemoveHosts"

\* lines 62-64: a RemoveHosts error returns, a success ends the iteration
AfterRemoveHostsErrorIgnored(err) == "continue"
AfterRemoveHosts(err) == IF err # "nil" THEN "return" ELSE "continue"

\* line 62: the list handed to RemoveHosts is the local variable hosts
PruneArgEmpty(r) == {<<>>}
PruneArgRelisted(r) == ListHosts(Current(r))
PruneArg(r) == {hosts[r]}

\* line 57: appConfig.WebhookSettings.FailingPoliciesWebhook.DestinationURL,
\* "https://hooks.example.com"
DestinationURL ==
    <<"h", "t", "t", "p", "s", ":", "/", "/", "h", "o", "o", "k", "s", ".",
      "e", "x", "a", "m", "p", "l", "e", ".", "c", "o", "m">>

\* %+v of a list of hosts: [{ID:101 Hostname:host-101} ...]
RECURSIVE FormatHostsFrom(_, _)
FormatHostsFrom(hs, i) ==
    IF i > Len(hs) THEN <<>>
    ELSE (IF i > 1 THEN <<" ">> ELSE <<>>)
         \o <<"{", "I", "D", ":">> \o Itoa(hs[i])
         \o <<" ", "H", "o", "s", "t", "n", "a", "m", "e", ":">> \o Hostname(hs[i])
         \o <<"}">> \o FormatHostsFrom(hs, i + 1)
FormatHosts(hs) == <<"[">> \o FormatHostsFrom(hs, 1) \o <<"]">>

\* lines 42, 46, 60, 63: ctxerr.Wrapf with its message, its formatted
\* arguments (%d is strconv.Itoa of the identifier) and the error it wraps
WrapPolicy(r, err) ==
    [msg |-> "failing to load failing policies set %d",
     args |-> <<Itoa(Current(r))>>, cause |-> err]
WrapListHosts(r, err) ==
    [msg |-> "listing hosts for failing policies set %d",
     args |-> <<Itoa(Current(r))>>, cause |-> err]
WrapPost(r, err) ==
    [msg |-> "posting to '%s'", args |-> <<DestinationURL>>, cause |-> err]
WrapRemoveHosts(r, arg, err) ==
    [msg |-> "removing hosts %+v from failing policies set %d",
     args |-> <<FormatHosts(arg), Itoa(Current(r))>>, cause |-> err]

\* line 33: the range loop moves to the next identifier, line 66 returns nil
\* when the list is exhausted; the iteration's locals go out of scope
AdvanceRepeat(r) ==
    /\ hosts' = [hosts EXCEPT ![r] = <<>>]
    /\ delivered' = [delivered EXCEPT ![r] = NotDelivered]
    /\ payload' = [payload EXCEPT ![r] = NoPayload]
    /\ pc' = [pc EXCEPT ![r] = "Policy"]
    /\ UNCHANGED <<idx, ret>>
Advance(r) ==
    /\ hosts' = [hosts EXCEPT ![r] = <<>>]
    /\ delivered' = [delivered EXCEPT ![r] = NotDelivered]
    /\ payload' = [payload EXCEPT ![r] = NoPayload]
    /\ IF idx[r] + 1 > Len(PolicyIDs)
       THEN /\ pc' = [pc EXCEPT ![r] = "done"]
            /\ ret' = [ret EXCEPT ![r] = NilError]
            /\ idx' = idx
       ELSE /\ pc' = [pc EXCEPT ![r] = "Policy"]
            /\ idx' = [idx EXCEPT ![r] = @ + 1]
            /\ ret' = ret

ReturnSwallowed(r, e) ==
    /\ hosts' = [hosts EXCEPT ![r] = <<>>]
    /\ delivered' = [delivered EXCEPT ![r] = NotDelivered]
    /\ pc' = [pc EXCEPT ![r] = "done"]
    /\ ret' = [ret EXCEPT ![r] = NilError]
    /\ idx' = idx

\* a return with a wrapped error
Return(r, e) ==
    /\ hosts' = [hosts EXCEPT ![r] = <<>>]
    /\ delivered' = [delivered EXCEPT ![r] = NotDelivered]
    /\ pc' = [pc EXCEPT ![r] = "done"]
    /\ ret' = [ret EXCEPT ![r] = e]
    /\ idx' = idx

\* the call just made
Called(r, op, err) == last' = [last EXCEPT ![r] = [op |-> op, i |-> idx[r], err |-> err]]

\* invocation r holds a snapshot of policyID that it has not pruned yet
HoldsSnapshot(r, policyID) ==
    pc[r] \in {"Post", "RemoveHosts"} /\ Current(r) = policyID

IsWatched(policyID, h) == policyID = Watched.policy /\ h = Watched.host

Init ==
    /\ Enable \in BOOLEAN
    /\ PolicyIDs \in ConfiguredLists
    /\ failingSets = [p \in KnownPolicies |-> {}]
    /\ pc = [r \in Runs |-> "idle"]
    /\ idx = [r \in Runs |-> 1]
    /\ hosts = [r \in Runs |-> <<>>]
    /\ ret = [r \in Runs |-> NotReturned]
    /\ last = [r \in Runs |-> NoCall]
    /\ delivered = [r \in Runs |-> NotDelivered]
    /\ attempts = [r \in Runs |-> [p \in KnownPolicies |-> 0]]
    /\ fresh = [r \in Runs |-> FALSE]
    /\ reported = FALSE
    /\ unpruned = FALSE
    /\ num = [r \in Runs |-> 0]
    /\ started = 0
    /\ writes = 0
    /\ ServerURL = ExampleServerURL
    /\ failingHost = NoFailingHost
    /\ payload = [r \in Runs |-> NoPayload]

Free(r) == pc[r] \in {"idle", "done"}

\* lines 19-33: the scheduler invokes the cycle on a replica that is not running
\* it, the one whose previous invocation is the oldest
Enter(r) ==
    /\ Free(r)
    /\ started < MaxRuns
    /\ \A q \in Runs \ {r} : Free(q) => (num[r] < num[q] \/ (num[r] = num[q] /\ r < q))
    /\ started' = started + 1
    /\ num' = [num EXCEPT ![r] = started + 1]
    /\ idx' = [idx EXCEPT ![r] = 1]
    /\ fresh' = [fresh EXCEPT ![r] = FALSE]
    /\ last' = [last EXCEPT ![r] = NoCall]
    /\ attempts' = [attempts EXCEPT ![r] = [p \in KnownPolicies |-> 0]]
    /\ payload' = [payload EXCEPT ![r] = NoPayload]
    /\ IF WebhookDisabled \/ Len(PolicyIDs) = 0
       THEN /\ pc' = [pc EXCEPT ![r] = "done"]
            /\ ret' = [ret EXCEPT ![r] = NilError]
       ELSE /\ pc' = [pc EXCEPT ![r] = "Policy"]
            /\ ret' = [ret EXCEPT ![r] = NotReturned]
    /\ UNCHANGED <<config, failingHost, failingSets, hosts, delivered, reported, unpruned, writes>>

\* invocations may overlap (overlapping ticks, several replicas)
Invoke(r) == Enter(r)

\* the scheduler runs as a singleton: an invocation starts when none is running
InvokeAlone(r) ==
    /\ \A q \in Runs : Free(q)
    /\ Enter(r)

\* lines 34-43: ds.Policy and the switch on its error
LoadPolicy(r) ==
    /\ pc[r] = "Policy"
    /\ \E err \in {"nil", "ErrNoRows", "StoreError"} :
          /\ Called(r, "Policy", err)
          /\ CASE PolicySwitch(err) = "ListHosts" ->
                    /\ pc' = [pc EXCEPT ![r] = "ListHosts"]
                    /\ UNCHANGED <<idx, ret, hosts, delivered, payload>>
               [] PolicySwitch(err) = "continue" -> Advance(r)
               [] OTHER -> Return(r, WrapPolicy(r, err)) /\ UNCHANGED payload
    /\ UNCHANGED <<config, failingHost, failingSets, attempts, fresh, reported, unpruned, num, started, writes>>

\* lines 44-47: the snapshot
Snapshot(r) ==
    /\ pc[r] = "ListHosts"
    /\ \E err \in {"nil", "StoreError"} :
       \E hs \in IF err = "nil" THEN ListHosts(Current(r)) ELSE {<<>>} :
          /\ Called(r, "ListHosts", err)
          /\ IF AfterListHosts(err) = "return"
             THEN Return(r, WrapListHosts(r, err)) /\ UNCHANGED payload
             ELSE /\ hosts' = [hosts EXCEPT ![r] = hs]
                  /\ pc' = [pc EXCEPT ![r] = "Post"]
                  /\ UNCHANGED <<idx, ret, delivered, payload>>
    /\ fresh' = [fresh EXCEPT ![r] = FALSE]
    /\ UNCHANGED <<config, failingHost, failingSets, attempts, reported, unpruned, num, started, writes>>

\* lines 48-61: the payload is built from the snapshot and posted
Deliver(r) ==
    /\ pc[r] = "Post"
    /\ attempts' = [attempts EXCEPT ![r][Current(r)] = @ + 1]
    /\ payload' = [payload EXCEPT ![r] = Payload(r)]
    /\ \E err \in {"nil", "DeliveryError"} :
          /\ Called(r, "Post", err)
          /\ reported' =
                \/ reported
                \/ /\ err = "nil"
                   /\ Current(r) = Watched.policy
                   /\ Watched.host \in Range(hosts[r]) \cap failingSets[Current(r)]
          /\ IF AfterPost(err) = "return"
             THEN /\ Return(r, WrapPost(r, err))
                  /\ UNCHANGED fresh
             ELSE /\ pc' = [pc EXCEPT ![r] = "RemoveHosts"]
                  /\ delivered' =
                        [delivered EXCEPT ![r] = IF err = "nil" THEN {hosts[r]} ELSE @]
                  /\ UNCHANGED <<idx, ret, hosts, fresh>>
    /\ UNCHANGED <<config, failingHost, failingSets, unpruned, num, started, writes>>

\* lines 62-65: the prune
Prune(r) ==
    /\ pc[r] = "RemoveHosts"
    /\ \E arg \in PruneArg(r), err \in {"nil", "StoreError"} :
          /\ Called(r, "RemoveHosts", err)
          /\ IF AfterRemoveHosts(err) = "continue"
             THEN /\ failingSets' =
                        IF err = "nil" THEN RemoveHosts(Current(r), arg) ELSE failingSets
                  /\ Advance(r)
                  /\ fresh' =
                        [q \in Runs |->
                            /\ fresh[q]
                            /\ ~ /\ q # r
                                 /\ HoldsSnapshot(q, Current(r))
                                 /\ Watched.host \in Range(arg)]
                  /\ reported' = (reported /\ Watched.host \in failingSets'[Watched.policy])
                  /\ unpruned' = (unpruned /\ reported')
             ELSE /\ Return(r, WrapRemoveHosts(r, arg, err))
                  /\ payload' = [payload EXCEPT ![r] = NoPayload]
                  /\ unpruned' =
                        \/ unpruned
                        \/ reported /\ IsWatched(Current(r), Watched.host)
                                    /\ Watched.host \in Range(arg)
                  /\ UNCHANGED <<failingSets, fresh, reported>>
    /\ UNCHANGED <<config, failingHost, attempts, num, started, writes>>

\* ------------------------------------------------------- the environment
\* an evaluation worker records that host h fails the policy
AddHost(policyID, h) ==
    /\ writes < MaxWrites
    /\ writes' = writes + 1
    /\ failingSets' = AddHostTo(policyID, h)
    /\ fresh' =
          [q \in Runs |-> fresh[q] \/ (HoldsSnapshot(q, policyID) /\ h = Watched.host)]
    /\ reported' = (reported /\ ~IsWatched(policyID, h))
    /\ unpruned' = (unpruned /\ reported')
    /\ UNCHANGED <<config, failingHost, payload, pc, idx, hosts, ret, last, delivered,
                   attempts, num, started>>

\* remediation: host h passes the policy again and is taken out of the set
Remediate(policyID, h) ==
    /\ h \in failingSets[policyID]
    /\ writes < MaxWrites
    /\ writes' = writes + 1
    /\ failingSets' = RemoveHosts(policyID, <<h>>)
    /\ fresh' =
          [q \in Runs |-> fresh[q] /\ ~(HoldsSnapshot(q, policyID) /\ h = Watched.host)]
    /\ reported' = (reported /\ ~IsWatched(policyID, h))
    /\ unpruned' = (unpruned /\ reported')
    /\ UNCHANGED <<config, failingHost, payload, pc, idx, hosts, ret, last, delivered,
                   attempts, num, started>>

\* ... and one that adds hosts only before the first invocation starts
AddHostBefore(policyID, h) ==
    /\ started = 0
    /\ AddHost(policyID, h)

Iterate(r) == LoadPolicy(r) \/ Snapshot(r) \/ Deliver(r) \/ Prune(r)

Environment ==
    \/ \E p \in KnownPolicies, h \in HostIDs : AddHost(p, h)
    \/ \E p \in KnownPolicies, h \in HostIDs : Remediate(p, h)

Next ==
    \/ \E r \in Runs : Invoke(r)
    \/ \E r \in Runs : Iterate(r)
    \/ Environment

Spec == Init /\ [][Next]_vars

NextAlone ==
    \/ \E r \in Runs : InvokeAlone(r)
    \/ \E r \in Runs : Iterate(r)
    \/ Environment

\* the cycle under a singleton scheduler: invocations never overlap
SpecAlone == Init /\ [][NextAlone]_vars

NextQuiet ==
    \/ \E r \in Runs : InvokeAlone(r)
    \/ \E r \in Runs : Iterate(r)
    \/ \E p \in KnownPolicies, h \in HostIDs : AddHostBefore(p, h)
    \/ \E p \in KnownPolicies, h \in HostIDs : Remediate(p, h)

\* successive invocations with no new failure detected once the first has started
SpecQuiet == Init /\ [][NextQuiet]_vars

\* ------------------------------------------- makeFailingHost on its own
\* the payload builder is a pure function of a host and the base address: any
\* base address a deployment may have, any host
InitURL ==
    /\ Enable = TRUE
    /\ PolicyIDs = <<>>
    /\ failingSets = [p \in KnownPolicies |-> {}]
    /\ pc = [r \in Runs |-> "idle"]
    /\ idx = [r \in Runs |-> 1]
    /\ hosts = [r \in Runs |-> <<>>]
    /\ ret = [r \in Runs |-> NotReturned]
    /\ last = [r \in Runs |-> NoCall]
    /\ delivered = [r \in Runs |-> NotDelivered]
    /\ attempts = [r \in Runs |-> [p \in KnownPolicies |-> 0]]
    /\ fresh = [r \in Runs |-> FALSE]
    /\ reported = FALSE
    /\ unpruned = FALSE
    /\ num = [r \in Runs |-> 0]
    /\ started = 0
    /\ writes = 0
    /\ ServerURL \in ServerURLs
    /\ failingHost = NoFailingHost
    /\ payload = [r \in Runs |-> NoPayload]

MakeFailingHost(id) ==
    /\ failingHost' = makeFailingHost(PolicySetHost(id), ServerURL)
    /\ UNCHANGED <<config, failingSets, pc, idx, hosts, ret, last, delivered, attempts,
                   fresh, reported, unpruned, num, started, writes, payload>>

NextURL == \E id \in 0..MaxHostID : MakeFailingHost(id)

SpecURL == InitURL /\ [][NextURL]_vars

\* ------------------------------------------------ the cycle run for ever
\* the scheduler, run as a singleton, keeps invoking the cycle; the invocations
\* after the first MaxRuns are not counted and their ticks are not told apart
Reinvoke(r) ==
    /\ \A q \in Runs : Free(q)
    /\ started = MaxRuns
    /\ \A q \in Runs : r <= q
    /\ num' = [num EXCEPT ![r] = MaxRuns]
    /\ idx' = [idx EXCEPT ![r] = 1]
    /\ fresh' = [fresh EXCEPT ![r] = FALSE]
    /\ last' = [last EXCEPT ![r] = NoCall]
    /\ attempts' = [attempts EXCEPT ![r] = [p \in KnownPolicies |-> 0]]
    /\ payload' = [payload EXCEPT ![r] = NoPayload]
    /\ IF WebhookDisabled \/ Len(PolicyIDs) = 0
       THEN /\ pc' = [pc EXCEPT ![r] = "done"]
            /\ ret' = [ret EXCEPT ![r] = NilError]
       ELSE /\ pc' = [pc EXCEPT ![r] = "Policy"]
            /\ ret' = [ret EXCEPT ![r] = NotReturned]
    /\ UNCHANGED <<config, failingHost, failingSets, hosts, delivered, reported, unpruned,
                   writes, started>>

Tick == \E r \in Runs : InvokeAlone(r) \/ Reinvoke(r)

\* a step of the loop in which the call succeeds
IterateOK(r) == Iterate(r) /\ last'[r].err = "nil"

\* calls may fail until the last counted invocation has started; from then on
\* the catalog finds the policies, and the store and the destination answer
Recovered == started = MaxRuns

NextLive ==
    \/ Tick
    \/ \E r \in Runs : ~Recovered /\ Iterate(r)
    \/ \E r \in Runs : Recovered /\ IterateOK(r)
    \/ Environment

\* every call of the running invocation returns (the store's critical sections
\* are short, the delivery has a timeout), and the scheduler keeps ticking
SpecLive ==
    /\ Init
    /\ [][NextLive]_vars
    /\ WF_vars(\E r \in Runs : Iterate(r))
    /\ WF_vars(Tick)

TypeOK ==
    /\ Enable \in BOOLEAN
    /\ \A r \in Runs : pc[r] \in {"idle", "Policy", "ListHosts", "Post", "RemoveHosts", "done"}

\* ------------------------------------------------------------- the claims
\* the step is one of invocation r's own steps
MovedBy(r) == pc'[r] # pc[r] \/ idx'[r] # idx[r]

\* invocation r's RemoveHosts call returns without error in this step
PruneDone(r) ==
    pc[r] = "RemoveHosts" /\ MovedBy(r) /\ last'[r].err = "nil"

\* invocation r's PostJSONWithTimeout call returns in this step
PostDone(r) == pc[r] = "Post" /\ MovedBy(r)

IsError(e) == e \notin {NotReturned, NilError}

\* the policy identifier of invocation r's latest call
LastPolicy(r) == PolicyIDs[last[r].i]

\* C1: after a successful delivery the cycle prunes with exactly the snapshot
\* that ListHosts returned in the same iteration: the policy's set after the
\* prune is its contents just before the prune minus the snapshot, no other
\* set changes, and when nothing was written to the set since the snapshot the
\* set is empty afterwards.
C1_PruneRemovesExactlyTheSnapshot ==
    [][\A r \in Runs :
          PruneDone(r) =>
             /\ delivered[r] = {hosts[r]}
             /\ failingSets' =
                   [failingSets EXCEPT ![Current(r)] = @ \ Range(hosts[r])]
             /\ (failingSets[Current(r)] \subseteq Range(hosts[r])
                    => failingSets'[Current(r)] = {})]_vars

\* a prune has just left a host in the set that was added after the snapshot
C1_Witness ==
    \E r \in Runs :
       /\ last[r] = [op |-> "RemoveHosts", i |-> 1, err |-> "nil"]
       /\ fresh[r]
       /\ pc[r] = "done"
       /\ failingSets[LastPolicy(r)] = {Watched.host}

\* C2: a step of a cycle invocation removes a host from a policy's set only
\* if the host is in the payload for that policy whose delivery succeeded
\* earlier in the same iteration of that invocation, also when invocations
\* overlap.
C2_RemovalOnlyAfterSuccessfulDelivery ==
    [][\A r \in Runs :
          MovedBy(r) =>
             \A p \in KnownPolicies :
                \A h \in failingSets[p] \ failingSets'[p] :
                   /\ p = Current(r)
                   /\ \E list \in delivered[r] : h \in Range(list)]_vars

\* two overlapping invocations have both delivered the watched host; one has
\* pruned it and the other is about to prune
C2_Witness ==
    \E r, q \in Runs :
       /\ r # q
       /\ writes = 1
       /\ last[r].op = "RemoveHosts" /\ last[r].err = "nil"
       /\ pc[q] = "RemoveHosts"
       /\ Current(q) = LastPolicy(r)
       /\ \E list \in delivered[q] : Watched.host \in Range(list)
       /\ Watched.host \notin failingSets[Current(q)]

\* C3: when the delivery attempt fails the invocation returns an error in the
\* same step, that step leaves every failing set as it is (the snapshot's hosts
\* that were members are still members), and the failed delivery stays the
\* invocation's latest call: it calls RemoveHosts neither for this policy nor
\* for a later one.
C3_FailedDeliveryAbortsWithoutPruning ==
    /\ [][\A r \in Runs :
             (PostDone(r) /\ last'[r].err # "nil") =>
                /\ pc'[r] = "done"
                /\ IsError(ret'[r])
                /\ failingSets' = failingSets
                /\ Range(hosts[r]) \cap failingSets[Current(r)]
                      \subseteq failingSets'[Current(r)]]_vars
    /\ [](\A r \in Runs :
             (last[r].op = "Post" /\ last[r].err # "nil") =>
                pc[r] = "done" /\ IsError(ret[r]) /\ idx[r] = last[r].i)

\* a delivery of the watched host failed at the first of two policies and the
\* host is still in the set
C3_Witness ==
    \E r \in Runs :
       /\ last[r] = [op |-> "Post", i |-> 1, err |-> "DeliveryError"]
       /\ Len(PolicyIDs) = 2
       /\ IsError(ret[r])
       /\ Watched.host \in failingSets[LastPolicy(r)]

\* C4: with an empty snapshot the invocation makes no delivery attempt and no
\* RemoveHosts call.
C4_EmptySnapshotIsSkipped ==
    [][\A r \in Runs :
          (pc[r] = "Post" /\ hosts[r] = <<>>) =>
             /\ attempts'[r] = attempts[r]
             /\ pc'[r] # "RemoveHosts"]_vars

\* C5: two successive invocations that both succeed, with no host added once
\* the first has started, make one delivery attempt in total for a policy that
\* the first one attempted: the second one makes none.
C5_SecondRunMakesNoAttempt ==
    \A a, b \in Runs :
       (/\ num[a] = 1 /\ num[b] = 2
        /\ pc[a] = "done" /\ pc[b] = "done"
        /\ ret[a] = NilError /\ ret[b] = NilError)
       => \A p \in Range(PolicyIDs) :
             attempts[a][p] >= 1 => attempts[a][p] + attempts[b][p] = 1

\* C6 as stated: whenever the watched host was added to the policy after the
\* snapshot and before the prune (and nobody else removed it in between), it
\* is a member after the prune.
C6_AnyHostAddedAfterSnapshotSurvives ==
    [][\A r \in Runs :
          (PruneDone(r) /\ fresh[r]) =>
             Watched.host \in failingSets'[Current(r)]]_vars

\* C6 amended: the same for a host that is not in the snapshot.
C6_HostOutsideSnapshotSurvives ==
    [][\A r \in Runs :
          (PruneDone(r) /\ fresh[r] /\ Watched.host \notin Range(hosts[r])) =>
             Watched.host \in failingSets'[Current(r)]]_vars

\* the invocation pruned a snapshot without the watched host, which was added
\* meanwhile and is still a member, and goes on to the next policy
C6_Witness ==
    \E r \in Runs :
       /\ last[r] = [op |-> "RemoveHosts", i |-> 1, err |-> "nil"]
       /\ fresh[r]
       /\ pc[r] = "Policy"
       /\ writes = 2
       /\ Watched.host \in failingSets[LastPolicy(r)]

\* a call that is fatal to the cycle before the prune
Fatal(c) ==
    /\ c.op \in {"Policy", "ListHosts", "Post"}
    /\ c.err \notin {"nil", "ErrNoRows"}

\* C7: a metadata error other than not-found, a ListHosts error or a delivery
\* error at index i changes no failing set, ends the invocation with an error
\* at index i, and stays its latest call: nothing is done for a later index.
C7_FatalErrorStopsTheCycle ==
    /\ [][\A r \in Runs :
             (MovedBy(r) /\ Fatal(last'[r])) => failingSets' = failingSets]_vars
    /\ [][\A r \in Runs :
             Fatal(last[r]) => last'[r] \in {last[r], NoCall}]_vars
    /\ [](\A r \in Runs :
             Fatal(last[r]) =>
                pc[r] = "done" /\ IsError(ret[r]) /\ idx[r] = last[r].i)

\* ListHosts failed at the first of two policies while the second policy has
\* a failing host
C7_Witness ==
    \E r \in Runs :
       /\ last[r] = [op |-> "ListHosts", i |-> 1, err |-> "StoreError"]
       /\ Len(PolicyIDs) = 2
       /\ PolicyIDs[1] # PolicyIDs[2]
       /\ failingSets[PolicyIDs[2]] # {}
       /\ pc[r] = "done"

\* C8: with the webhook disabled an invocation returns nil at once, has made
\* no call to the catalog, the set or the transport, and changes no failing
\* set.
C8_DisabledIsANoOp ==
    /\ [][\A r \in Runs :
             (~Enable /\ MovedBy(r)) =>
                /\ pc'[r] = "done"
                /\ ret'[r] = NilError
                /\ failingSets' = failingSets]_vars
    /\ [](~Enable =>
             \A r \in Runs :
                /\ last[r] = NoCall
                /\ \A p \in KnownPolicies : attempts[r][p] = 0
                /\ pc[r] \in {"idle", "done"})

\* a disabled invocation has returned while a configured policy has a failing
\* host
C8_Witness ==
    /\ ~Enable
    /\ Len(PolicyIDs) > 0
    /\ \E r \in Runs : pc[r] = "done" /\ ret[r] = NilError
    /\ failingSets[PolicyIDs[1]] # {}

\* C9: a not-found answer of the catalog changes no failing set and counts as
\* no delivery attempt; right after it the invocation is at the catalog read
\* of the next identifier, or has returned nil when there is none.
C9_NotFoundIsSkipped ==
    /\ [][\A r \in Runs :
             (MovedBy(r) /\ last'[r].op = "Policy" /\ last'[r].err = "ErrNoRows") =>
                /\ failingSets' = failingSets
                /\ attempts' = attempts]_vars
    /\ [](\A r \in Runs :
             (last[r].op = "Policy" /\ last[r].err = "ErrNoRows") =>
                \/ pc[r] = "Policy" /\ idx[r] = last[r].i + 1
                \/ /\ pc[r] = "done" /\ ret[r] = NilError
                   /\ last[r].i = Len(PolicyIDs))

\* the first identifier was not found, its set has a failing host, and the
\* invocation is at the second identifier
C9_Witness ==
    \E r \in Runs :
       /\ last[r] = [op |-> "Policy", i |-> 1, err |-> "ErrNoRows"]
       /\ pc[r] = "Policy"
       /\ idx[r] = 2
       /\ failingSets[PolicyIDs[1]] # {}

\* invocation r's delivery succeeds in this step with the watched host in the
\* payload for the watched policy
DeliversWatched(r) ==
    /\ PostDone(r)
    /\ last'[r].err = "nil"
    /\ Current(r) = Watched.policy
    /\ Watched.host \in Range(hosts[r])

\* C10 as stated: under a singleton scheduler a host that was delivered
\* successfully since it was added is in no second successful payload.
C10_NeverDoubleReported ==
    [][\A r \in Runs : DeliversWatched(r) => ~reported]_vars

\* C10 amended: ... unless the RemoveHosts call that followed the successful
\* delivery failed.
C10_DoubleReportOnlyAfterFailedPrune ==
    [][\A r \in Runs : (DeliversWatched(r) /\ reported) => unpruned]_vars

\* the second invocation has delivered the watched host, which no earlier
\* delivery had reported
C10_Witness ==
    \E r \in Runs :
       /\ num[r] = 2
       /\ pc[r] = "RemoveHosts"
       /\ reported /\ ~unpruned
       /\ \E list \in delivered[r] : Watched.host \in Range(list)

\* C11: in one invocation every monitored policy identifier gets at most one
\* delivery attempt, whatever the configured list.
C11_OneAttemptPerPolicy ==
    \A r \in Runs : \A p \in KnownPolicies : attempts[r][p] <= 1

\* the place of a call in the body of the loop
OpRank(op) ==
    CASE op = "Policy" -> 1
      [] op = "ListHosts" -> 2
      [] op = "Post" -> 3
      [] op = "RemoveHosts" -> 4
      [] OTHER -> 0

\* C12: every call of an invocation is made for the identifier at its current
\* index, and comes later than its previous call in the order (index in the
\* configured list, place in the loop body): the calls for index j are over
\* before any call for index j+1, the index moves by one at most, and a
\* delivery attempt at index j is an attempt for the j-th configured identifier.
C12_SequentialInConfiguredOrder ==
    [][\A r \in Runs :
          (MovedBy(r) /\ last'[r] # NoCall) =>
             /\ last'[r].i = idx[r]
             /\ \/ last[r].i < last'[r].i
                \/ last[r].i = last'[r].i /\ OpRank(last[r].op) < OpRank(last'[r].op)
             /\ idx'[r] \in {idx[r], idx[r] + 1}
             /\ last'[r].op = "Post" =>
                   attempts'[r] = [attempts[r] EXCEPT ![PolicyIDs[last'[r].i]] = @ + 1]]_vars

\* an invocation over two different policies has attempted the first and is
\* past the delivery for the second
C12_Witness ==
    \E r \in Runs :
       /\ Len(PolicyIDs) = 2
       /\ PolicyIDs[1] # PolicyIDs[2]
       /\ last[r] = [op |-> "Post", i |-> 2, err |-> "nil"]
       /\ attempts[r][PolicyIDs[1]] = 1
       /\ attempts[r][PolicyIDs[2]] = 1

\* a call whose error ends the cycle
IsFatal(c) == c.err \notin {"nil", "ErrNoRows"}

\* a call that completes the iteration it was made in
Completes(c) ==
    \/ c.op = "RemoveHosts" /\ c.err = "nil"
    \/ c.op = "Policy" /\ c.err = "ErrNoRows"

\* C13: an invocation that has returned has returned nil or an error.  It moves
\* to the next index only when the current identifier was pruned after its
\* delivery or skipped as not found, and returns nil only from the last index
\* in that way (or at once, when disabled or with nothing configured); a call
\* with a fatal error ends it in the same step with that error as the cause, so
\* the error returned is the first one met in list order.
C13_SuccessOrFirstFatalError ==
    /\ [](\A r \in Runs :
             /\ pc[r] = "done" => (ret[r] = NilError) # IsError(ret[r])
             /\ pc[r] # "done" => ret[r] = NotReturned
             /\ (pc[r] = "done" /\ ret[r] = NilError) =>
                   \/ last[r] = NoCall /\ (~Enable \/ PolicyIDs = <<>>)
                   \/ Completes(last[r]) /\ last[r].i = Len(PolicyIDs)
             /\ (pc[r] = "done" /\ IsError(ret[r])) =>
                   /\ IsFatal(last[r])
                   /\ ret[r].cause = last[r].err
                   /\ idx[r] = last[r].i)
    /\ [][\A r \in Runs :
             /\ (MovedBy(r) /\ idx'[r] = idx[r] + 1) =>
                   Completes(last'[r]) /\ last'[r].i = idx[r]
             /\ (MovedBy(r) /\ last'[r] # NoCall /\ IsFatal(last'[r])) =>
                   pc'[r] = "done" /\ IsError(ret'[r])
             /\ (MovedBy(r) /\ last'[r] # NoCall /\ ~IsFatal(last'[r])) =>
                   ~IsError(ret'[r])]_vars

\* an invocation over two policies returned nil after delivering and pruning
\* the first and skipping the second as not found
C13_Witness ==
    \E r \in Runs :
       /\ Len(PolicyIDs) = 2
       /\ PolicyIDs[1] # PolicyIDs[2]
       /\ pc[r] = "done"
       /\ ret[r] = NilError
       /\ last[r] = [op |-> "Policy", i |-> 2, err |-> "ErrNoRows"]
       /\ attempts[r][PolicyIDs[1]] = 1

\* "/hosts/"
HostsSegment == <<"/", "h", "o", "s", "t", "s", "/">>

\* C14: the URL of a FailingHost is the base address followed by "/hosts/" and
\* the decimal host identifier; "https://fleet.example.com" and host 42 give
\* "https://fleet.example.com/hosts/42".
C14_URLIsBaseHostsID ==
    failingHost # NoFailingHost =>
       /\ failingHost.URL = ServerURL \o HostsSegment \o Itoa(failingHost.ID)
       /\ (ServerURL = ExampleServerURL /\ failingHost.ID = 42) =>
             failingHost.URL =
                <<"h", "t", "t", "p", "s", ":", "/", "/", "f", "l", "e", "e", "t", ".",
                  "e", "x", "a", "m", "p", "l", "e", ".", "c", "o", "m",
                  "/", "h", "o", "s", "t", "s", "/", "4", "2">>

\* the host identifiers of a payload, in its order
PayloadIDs(pl) == [i \in 1..Len(pl.FailingHosts) |-> pl.FailingHosts[i].ID]

\* C17: the payload handed to PostJSONWithTimeout for the identifier at the
\* current index carries the invocation's timestamp, the record of that policy
\* and one FailingHost per host of the snapshot, in the snapshot's order, with
\* the host's identifier and name; and a successful prune takes out of the
\* policy's set exactly the identifiers of the payload just delivered.
C17_PayloadMirrorsTheSnapshot ==
    /\ [][\A r \in Runs :
             PostDone(r) =>
                /\ payload'[r].Timestamp = num[r]
                /\ payload'[r].Policy = Policy(PolicyIDs[idx[r]])
                /\ Len(payload'[r].FailingHosts) = Len(hosts[r])
                /\ \A i \in 1..Len(hosts[r]) :
                      /\ payload'[r].FailingHosts[i].ID = hosts[r][i]
                      /\ payload'[r].FailingHosts[i].Hostname = Hostname(hosts[r][i])]_vars
    /\ [][\A r \in Runs :
             PruneDone(r) =>
                failingSets' =
                   [failingSets EXCEPT ![Current(r)] = @ \ Range(PayloadIDs(payload[r]))]]_vars

\* the payload of a second invocation, with both hosts, is delivered and its
\* prune is due
C17_Witness ==
    \E r \in Runs :
       /\ pc[r] = "RemoveHosts"
       /\ payload[r].Timestamp = 2
       /\ Len(payload[r].FailingHosts) = 2
       /\ PayloadIDs(payload[r]) = hosts[r]
       /\ Range(hosts[r]) = failingSets[Current(r)]

\* the lists of host identifiers a caller may hand to RemoveHosts: any order,
\* with repetitions, with identifiers that are not members
HostLists == SeqsUpTo(HostIDs, Cardinality(HostIDs))

\* C16: in every reachable state RemoveHosts with any list leaves the
\* policy's set minus the identifiers of the list and no other set changed,
\* changes nothing when none of them is a member (so that a second call with
\* the same list changes nothing), and AddHost of a member changes nothing; a
\* snapshot lists every member once; and a prune that is interleaved with
\* AddHost calls keeps every member that is not in its list.
C16_RemoveHostsIsSetDifference ==
    /\ [](\A p \in KnownPolicies :
             /\ \A L \in HostLists :
                   \E after \in {RemoveHosts(p, L)} :
                      /\ after[p] = failingSets[p] \ Range(L)
                      /\ \A q \in KnownPolicies \ {p} : after[q] = failingSets[q]
                      /\ (Range(L) \cap failingSets[p] = {}) => after = failingSets
             /\ \A h \in failingSets[p] : AddHostTo(p, h) = failingSets)
    /\ [](\A r \in Runs : Len(hosts[r]) = Cardinality(Range(hosts[r])))
    /\ [][\A r \in Runs :
             PruneDone(r) =>
                \A h \in failingSets[Current(r)] \ Range(hosts[r]) :
                   h \in failingSets'[Current(r)]]_vars

\* a prune has left both hosts in the set: the watched one was added after the
\* snapshot, the other one is not in the list either
C16_Witness ==
    \E r \in Runs :
       /\ last[r].op = "RemoveHosts"
       /\ last[r].err = "nil"
       /\ fresh[r]
       /\ failingSets[LastPolicy(r)] = HostIDs

\* C18: the error an invocation returned carries the identifier of the policy
\* it was processing, as one of the formatted arguments of its message, and
\* wraps the error of the call that failed.
C18_ErrorNamesThePolicy ==
    \A r \in Runs :
       (pc[r] = "done" /\ IsError(ret[r])) =>
          /\ Itoa(LastPolicy(r)) \in Range(ret[r].args)
          /\ ret[r].cause = last[r].err

\* invocation r's RemoveHosts call returns an error in this step
PruneFailed(r) ==
    pc[r] = "RemoveHosts" /\ MovedBy(r) /\ last'[r].err # "nil"

\* C19: when RemoveHosts fails after the delivery, the invocation returns an
\* error in the same step and that step leaves every failing set as it is, so
\* the hosts just delivered that were members are still members; the failed
\* call stays the invocation's latest call (no later policy is processed); and
\* while the watched host stays in the set after such a failure, every later
\* snapshot of the policy contains it, so it is in the next payload.
C19_FailedPruneKeepsTheHosts ==
    /\ [][\A r \in Runs :
             PruneFailed(r) =>
                /\ pc'[r] = "done"
                /\ IsError(ret'[r])
                /\ idx'[r] = idx[r]
                /\ failingSets' = failingSets
                /\ \A list \in delivered[r] :
                      Range(list) \cap failingSets[Current(r)]
                         \subseteq failingSets'[Current(r)]]_vars
    /\ [][\A r \in Runs :
             (last[r].op = "RemoveHosts" /\ last[r].err # "nil") =>
                last'[r] \in {last[r], NoCall}]_vars
    /\ [][\A r \in Runs :
             (/\ unpruned
              /\ pc[r] = "ListHosts" /\ MovedBy(r) /\ last'[r].err = "nil"
              /\ Current(r) = Watched.policy) =>
                Watched.host \in Range(hosts'[r])]_vars
    /\ [][\A r \in Runs :
             (/\ unpruned
              /\ PostDone(r)
              /\ Current(r) = Watched.policy
              /\ Watched.host \in Range(hosts[r])) =>
                Watched.host \in Range(PayloadIDs(payload'[r]))]_vars

\* the first invocation delivered the watched host and failed to prune it; the
\* second one has delivered it again
C19_Witness ==
    \E a, b \in Runs :
       /\ num[a] = 1
       /\ num[b] = 2
       /\ last[a].op = "RemoveHosts" /\ last[a].err # "nil"
       /\ IsError(ret[a])
       /\ unpruned
       /\ last[b] = [op |-> "Post", i |-> last[a].i, err |-> "nil"]
       /\ Watched.host \in Range(PayloadIDs(payload[b]))

\* C20: a successful prune leaves no host of its snapshot in the policy's set,
\* no step of an invocation puts a host into any set, and the step in which an
\* invocation returns an error changes no set: what the invocation removed at
\* the earlier indices is not put back when it fails.
C20_NoRollbackOnFailure ==
    /\ [][\A r \in Runs :
             PruneDone(r) => failingSets'[Current(r)] \cap Range(hosts[r]) = {}]_vars
    /\ [][\A r \in Runs :
             MovedBy(r) => \A p \in KnownPolicies : failingSets'[p] \subseteq failingSets[p]]_vars
    /\ [][\A r \in Runs :
             (MovedBy(r) /\ IsError(ret'[r])) => failingSets' = failingSets]_vars

\* the only invocation delivered and pruned the one host ever added, at the
\* first of two policies, then failed at the second; the host is still out
C20_Witness ==
    \E r \in Runs :
       /\ started = 1
       /\ writes = 1
       /\ Len(PolicyIDs) = 2
       /\ PolicyIDs[1] # PolicyIDs[2]
       /\ pc[r] = "done"
       /\ IsError(ret[r])
       /\ last[r].i = 2
       /\ attempts[r][PolicyIDs[1]] = 1
       /\ \A p \in KnownPolicies : failingSets[p] = {}

\* the watched host is in the set of the watched policy, which is monitored
WatchedFails ==
    /\ Enable
    /\ Watched.policy \in Range(PolicyIDs)
    /\ Watched.host \in failingSets[Watched.policy]

\* C15: with the cycle invoked for ever and every call succeeding from some
\* point on, whenever the watched host is in the set of the monitored watched
\* policy, it is later in a successfully delivered payload for it, or has left
\* the set; and a step of an invocation, failed or not, takes it out of the set
\* only when that invocation has delivered it.
C15_FailingHostIsEventuallyDelivered ==
    /\ WatchedFails ~> (reported \/ ~WatchedFails)
    /\ [][\A r \in Runs :
             (/\ MovedBy(r)
              /\ Watched.host \in failingSets[Watched.policy]
              /\ Watched.host \notin failingSets'[Watched.policy]) =>
                \E list \in delivered[r] : Watched.host \in Range(list)]_vars

\* after a failed invocation, a later one has delivered the watched host,
\* which is still in the set
C15_Witness ==
    \E a, b \in Runs :
       /\ IsError(ret[a])
       /\ num[b] > num[a]
       /\ pc[b] = "RemoveHosts"
       /\ reported
       /\ WatchedFails

\* C21: a step of an invocation that changes the failing sets is the
\* successful RemoveHosts call for the identifier at its current index, made
\* after the delivery of that iteration succeeded, and it takes the delivered
\* snapshot out of that policy's set and touches no other set; no step of an
\* invocation adds a host to a set or changes the set of a policy that is not
\* in the configured list; and the step in which the catalog answers not found
\* leaves the set of that identifier as it is.
C21_OnlyThePruneChangesTheSets ==
    [][\A r \in Runs :
          MovedBy(r) =>
             /\ failingSets' # failingSets =>
                   /\ PruneDone(r)
                   /\ delivered[r] = {hosts[r]}
                   /\ failingSets'[PolicyIDs[idx[r]]] =
                         failingSets[PolicyIDs[idx[r]]] \ Range(hosts[r])
                   /\ \A p \in KnownPolicies \ {PolicyIDs[idx[r]]} :
                         failingSets'[p] = failingSets[p]
             /\ \A p \in KnownPolicies : failingSets'[p] \subseteq failingSets[p]
             /\ \A p \in KnownPolicies \ Range(PolicyIDs) :
                   failingSets'[p] = failingSets[p]
             /\ (last'[r].op = "Policy" /\ last'[r].err = "ErrNoRows") =>
                   failingSets'[PolicyIDs[idx[r]]] = failingSets[PolicyIDs[idx[r]]]]_vars

\* two writes added one host to the only configured policy and one to the
\* policy that is not in the list; both invocations took the snapshot of the
\* configured policy, one has pruned it, and the other policy's host is still
\* in its set
C21_Witness ==
    \E a, b \in Runs :
       /\ a # b
       /\ Len(PolicyIDs) = 1
       /\ writes = 2
       /\ last[a] = [op |-> "RemoveHosts", i |-> 1, err |-> "nil"]
       /\ attempts[a][PolicyIDs[1]] = 1
       /\ pc[b] = "RemoveHosts"
       /\ hosts[b] # <<>>
       /\ failingSets[PolicyIDs[1]] = {}
       /\ \E p \in KnownPolicies \ Range(PolicyIDs) : failingSets[p] # {}

\* an upper bound of the calls a running invocation has yet to make: four for
\* every identifier after the current one, and the rest of the current iteration
CallsLeft(r) ==
    IF Free(r) THEN 0 ELSE 4 * (Len(PolicyIDs) - idx[r]) + 5 - OpRank(pc[r])

\* C22: when every call returns (the fairness of SpecLive), a running
\* invocation returns.  While it runs
\* its index is a position of the configured list; each of its steps lowers
\* the number of calls it may still make, which is at most four per entry when
\* it starts, so no entry gets a second iteration; and it is over exactly when
\* a call failed with a fatal error or the iteration of the last entry ended.
C22_EveryInvocationTerminates ==
    /\ \A r \in Runs : (~Free(r)) ~> (pc[r] = "done")
    /\ [](\A r \in Runs :
             /\ ~Free(r) => idx[r] \in 1..Len(PolicyIDs)
             /\ CallsLeft(r) <= 4 * Len(PolicyIDs))
    /\ [][\A r \in Runs :
             (MovedBy(r) /\ ~Free(r)) =>
                /\ CallsLeft(r)' < CallsLeft(r)
                /\ idx'[r] >= idx[r]
                /\ pc'[r] = "done" <=>
                      \/ IsFatal(last'[r])
                      \/ Completes(last'[r]) /\ idx[r] = Len(PolicyIDs)]_vars

\* of two invocations over a list of two, one went through both entries and
\* returned nil, the other stopped with an error at the first entry
C22_Witness ==
    \E a, b \in Runs :
       /\ Len(PolicyIDs) = 2
       /\ pc[a] = "done"
       /\ ret[a] = NilError
       /\ last[a] = [op |-> "RemoveHosts", i |-> 2, err |-> "nil"]
       /\ pc[b] = "done"
       /\ IsError(ret[b])
       /\ last[b].i = 1

====
